---- MODULE Spec2Model ----
(***************************************************************************)
(* A model of the email agent: the classification policy of llm_client.py  *)
(* and agent.py (categorize, _determine_priority), the IMAP client of      *)
(* email_client.py (connect, disconnect, fetch_emails, move_email) and the *)
(* batch operations of agent.py and main.py that run inside a scoped       *)
(* connection.                                                             *)
(*                                                                         *)
(* Text is modelled as a sequence of one-character strings, so that        *)
(* strip, split, lower, upper and the `in` substring test are computed     *)
(* character by character as Python computes them.                         *)
(***************************************************************************)
EXTENDS Integers, Sequences, FiniteSets, TLC

---------------------------------------------------------------------------
(* Bounds of the model.                                                    *)

\* number of fragments a raw completion text is assembled from
MaxFrags == 4

\* number of messages in the INBOX when an organize or summary run starts
MaxMsgs == 2

\* number of messages in the INBOX when a digest run starts
MaxUnread == 3

\* number of messages in the INBOX when fetch_emails is called on its own
MaxFetch == 3

---------------------------------------------------------------------------
(* Text primitives (Python str methods).                                   *)

UpperAlpha ==
  <<"A","B","C","D","E","F","G","H","I","J","K","L","M",
    "N","O","P","Q","R","S","T","U","V","W","X","Y","Z">>

LowerAlpha ==
  <<"a","b","c","d","e","f","g","h","i","j","k","l","m",
    "n","o","p","q","r","s","t","u","v","w","x","y","z">>

\* the characters str.strip() removes
Whitespace == {" ", "\n", "\t", "\r"}

LowerChar(c) ==
  IF \E k \in 1..Len(UpperAlpha) : UpperAlpha[k] = c
  THEN LowerAlpha[CHOOSE k \in 1..Len(UpperAlpha) : UpperAlpha[k] = c]
  ELSE c

UpperChar(c) ==
  IF \E k \in 1..Len(LowerAlpha) : LowerAlpha[k] = c
  THEN UpperAlpha[CHOOSE k \in 1..Len(LowerAlpha) : LowerAlpha[k] = c]
  ELSE c

\* str.lower()
ToLower(s) == [k \in 1..Len(s) |-> LowerChar(s[k])]

\* str.upper()
ToUpper(s) == [k \in 1..Len(s) |-> UpperChar(s[k])]

RECURSIVE LStrip(_)
LStrip(s) ==
  IF s = <<>> THEN s
  ELSE IF Head(s) \in Whitespace THEN LStrip(Tail(s)) ELSE s

RECURSIVE RStrip(_)
RStrip(s) ==
  IF s = <<>> THEN s
  ELSE IF s[Len(s)] \in Whitespace THEN RStrip(SubSeq(s, 1, Len(s) - 1)) ELSE s

\* str.strip()
Strip(s) == RStrip(LStrip(s))

\* s.split("\n")[0]
FirstLine(s) ==
  IF \E k \in 1..Len(s) : s[k] = "\n"
  THEN SubSeq(s, 1, (CHOOSE k \in 1..Len(s) :
                        /\ s[k] = "\n"
                        /\ \A j \in 1..(k - 1) : s[j] # "\n") - 1)
  ELSE s

\* the Python test `sub in s` on strings
Contains(sub, s) ==
  \E k \in 0..(Len(s) - Len(sub)) : SubSeq(s, k + 1, k + Len(sub)) = sub

---------------------------------------------------------------------------
(* String literals of the source.                                          *)

S_Important  == <<"I","m","p","o","r","t","a","n","t">>
S_Work       == <<"W","o","r","k">>
S_Personal   == <<"P","e","r","s","o","n","a","l">>
S_Newsletter == <<"N","e","w","s","l","e","t","t","e","r">>
S_Spam       == <<"S","p","a","m">>
S_Other      == <<"O","t","h","e","r">>
S_HIGH       == <<"H","I","G","H">>
S_LOW        == <<"L","O","W">>

S_INBOX      == <<"I","N","B","O","X">>
S_Archive    == <<"A","r","c","h","i","v","e">>
S_WorkImportant ==
  <<"W","o","r","k","/","I","m","p","o","r","t","a","n","t">>
S_spam       == <<"s","p","a","m">>

\* categorize's default category list
DefaultCategories ==
  <<S_Important, S_Work, S_Personal, S_Newsletter, S_Spam, S_Other>>

\* the text chat returns when the completion call raises
S_Error ==
  <<"E","r","r","o","r"," ","c","o","m","m","u","n","i","c","a","t","i","n","g",
    " ","w","i","t","h"," ","L","L","M",":"," ">>

---------------------------------------------------------------------------
(* Classification policy.                                                  *)

\* a categorize that matches against the whole response, not its first line
categorizeWholeResponse(raw, categories) ==
  LET response == Strip(raw)
      hits == {k \in 1..Len(categories) :
                 Contains(ToLower(categories[k]), ToLower(response))}
  IN  IF hits = {} THEN S_Other
      ELSE categories[CHOOSE k \in hits : \A j \in hits : k <= j]

\* LLMClient.categorize, from the text chat returned
categorize(raw, categories) ==
  LET response == FirstLine(Strip(raw))
      hits == {k \in 1..Len(categories) :
                 Contains(ToLower(categories[k]), ToLower(response))}
  IN  IF hits = {} THEN S_Other
      ELSE categories[CHOOSE k \in hits : \A j \in hits : k <= j]

\* a priority policy that tests LOW before HIGH
DeterminePriorityLowFirst(raw) ==
  LET response == ToUpper(Strip(raw))
  IN  IF Contains(S_LOW, response) THEN "LOW"
      ELSE IF Contains(S_HIGH, response) THEN "HIGH"
      ELSE "MEDIUM"

\* EmailAgent._determine_priority, from the text chat returned
DeterminePriority(raw) ==
  LET response == ToUpper(Strip(raw))
  IN  IF Contains(S_HIGH, response) THEN "HIGH"
      ELSE IF Contains(S_LOW, response) THEN "LOW"
      ELSE "MEDIUM"

---------------------------------------------------------------------------
(* State.                                                                  *)

VARIABLES
  raw,        \* policy: the raw completion text under classification
  allowed,    \* policy: the allowed-category list passed to categorize
  ret,        \* policy: the value the classification returned
  called,     \* policy: which classification ran ("none" before any)
  inbox,      \* server: the INBOX, a message's sequence number is its position
  copies,     \* server: the messages copied into other folders, <<uid, folder>>
  serverFolders, \* server: the folder names, in LIST order
  imap,       \* EmailClient.imap: "None", "unauth" (login failed) or "auth"
  pc,         \* the batch operation in progress, "idle" between operations
  op,         \* the last operation started
  outcome,    \* how the last operation ended: "none", "returned", "raised"
              \* (an exception of the code), "interrupted" (KeyboardInterrupt)
  emails,     \* the records fetch_emails returned
  folders,    \* the names get_folders returned
  idx,        \* the number of fetched records the loop has processed
  dryRun,     \* organize_inbox's dry_run argument
  results,    \* organize_inbox's action records
  moveLog,    \* the move_email calls of the run, with what the COPY
              \* command did and what each call returned
  inbox0,     \* the INBOX when the operation started
  copies0,    \* the other folders when the operation started
  summaries,  \* get_inbox_summary's list of EmailSummary
  callLog,    \* the chat calls of the run: which method called, did it fail
  digest,     \* the parts of the text get_daily_digest returned
  status,     \* the dict check_connections returned
  reply,      \* the draft the reply flow showed
  acquired,   \* whether the operation's connect calls left a session object
  fetchArgs,  \* the limit and unread_only of a direct fetch_emails call
  msg,        \* decoder: the message handed to _get_email_body
  body,       \* decoder: the text _get_email_body returned
  menu,       \* main_menu's position: "boot" before the initial
              \* check_status, "loop" in the while loop, "exit" after
              \* sys.exit(1) or choice 7; "none" when no menu runs
  probe,      \* what the mail store and the completion capability did at
              \* the last check_connections
  sender_map, \* clean_inbox: sender number -> the sender and its emails
  act,        \* clean_inbox: the action the loop handled last
  deleteCalls, \* clean_inbox: the delete calls that action made, in order
  gone,       \* clean_inbox: the record ids deleted so far in the run
  message     \* clean_inbox: the line the last action printed

policyVars == <<raw, allowed, ret, called>>
serverVars == <<inbox, copies, serverFolders>>
agentVars  == <<imap, pc, op, outcome, emails, folders, idx, dryRun, results,
                moveLog, inbox0, copies0, summaries, callLog, digest,
                status, reply, acquired, fetchArgs>>

decoderVars == <<msg, body>>

menuVars == <<menu, probe>>
cleanVars == <<sender_map, act, deleteCalls, gone, message>>

vars == <<policyVars, serverVars, agentVars, decoderVars, menuVars, cleanVars>>

---------------------------------------------------------------------------
(* The completion capability (llm_client.py).                              *)

\* LLMClient.chat: the completion's text, or the error text when the
\* call raised (o.ok = FALSE, o.text the exception's message)
chat(o) == IF o.ok THEN o.text ELSE S_Error \o o.text

---------------------------------------------------------------------------
(* The IMAP client (email_client.py).                                      *)

\* what IMAP4_SSL(...) and login can do: both succeed, the constructor
\* raises, login raises
ConnectOutcomes == {"ok", "ctor", "login"}

\* EmailClient.connect, as the new value of imap and the value returned
connect(cur, o) ==
  CASE o = "ok"    -> [imap |-> "auth",   ok |-> TRUE]
    [] o = "login" -> [imap |-> "unauth", ok |-> FALSE]
    [] o = "ctor"  -> [imap |-> cur,      ok |-> FALSE]

\* a disconnect that logs out and keeps the session object
disconnectKeepsSession(cur) == cur

\* EmailClient.disconnect, as the new value of imap
disconnect(cur) == IF cur # "None" THEN "None" ELSE cur

RECURSIVE Ascending(_)
Ascending(S) ==
  IF S = {} THEN <<>>
  ELSE LET m == CHOOSE x \in S : \A y \in S : x <= y
       IN  <<m>> \o Ascending(S \ {m})

Reverse(s) == [k \in 1..Len(s) |-> s[Len(s) + 1 - k]]

\* imap.search(None, "UNSEEN" | "ALL"): sequence numbers, ascending
Search(box, unread_only) ==
  Ascending({k \in 1..Len(box) : unread_only => ~box[k].seen})

\* ids[-limit:] if len(ids) > limit else ids
Window(ids, limit) ==
  IF Len(ids) > limit
  THEN IF limit > 0 THEN SubSeq(ids, Len(ids) - limit + 1, Len(ids))
       ELSE IF limit = 0 THEN ids
       ELSE SubSeq(ids, 1 - limit, Len(ids))
  ELSE ids

RECURSIVE JoinSpace(_)
\* " ".join(result)
JoinSpace(parts) ==
  IF parts = <<>> THEN <<>>
  ELSE IF Len(parts) = 1 THEN parts[1]
  ELSE parts[1] \o <<" ">> \o JoinSpace(Tail(parts))

\* the charsets bytes.decode knows
KnownCharsets == {"utf-8", "iso-8859-1"}

\* EmailClient._decode_header_value. A header is <<>> when absent (None),
\* else <<segments>>, a segment being decode_header's (part, encoding): a
\* str part (bytes = FALSE) or a bytes part with its charset ("none" when
\* decode_header gives None). Decoding bytes in an unknown charset raises
\* LookupError, which nothing here catches.
_decode_header_value(h) ==
  IF h = <<>> THEN [raised |-> FALSE, value |-> <<>>]
  ELSE LET segs == h[1]
           bad(k) == /\ segs[k].bytes
                     /\ segs[k].charset # "none"
                     /\ segs[k].charset \notin KnownCharsets
       IN  IF \E k \in 1..Len(segs) : bad(k)
           THEN [raised |-> TRUE, value |-> <<>>]
           ELSE [raised |-> FALSE,
                 value |-> JoinSpace([k \in 1..Len(segs) |-> segs[k].text])]

RECURSIVE FetchLoop(_, _)
\* the loop over ids inside fetch_emails' try block: the records appended
\* before the first message whose decoding raises
FetchLoop(ids, box) ==
  IF ids = <<>> THEN <<>>
  ELSE LET m == box[Head(ids)]
           subject == _decode_header_value(m.subject)
           sender == _decode_header_value(m.sender)
       IN  IF subject.raised \/ sender.raised THEN <<>>
           ELSE <<[id |-> Head(ids), uid |-> m.uid,
                   subject |-> subject.value, sender |-> sender.value]>>
                \o FetchLoop(Tail(ids), box)

\* EmailClient.fetch_emails on the INBOX, as the new value of imap and the
\* list returned; o is what connect does if it is called
fetch_emails(cur, o, box, limit, unread_only) ==
  LET c == IF cur = "None" THEN connect(cur, o) ELSE [imap |-> cur, ok |-> TRUE]
  IN  IF ~c.ok THEN [imap |-> c.imap, emails |-> <<>>]
      ELSE IF c.imap # "auth" THEN [imap |-> c.imap, emails |-> <<>>]
      ELSE [imap |-> c.imap,
            emails |-> FetchLoop(Reverse(Window(Search(box, unread_only), limit)),
                                 box)]

\* EmailClient.get_folders, as the new value of imap and the list returned
get_folders(cur, o, names) ==
  LET c == IF cur = "None" THEN connect(cur, o) ELSE [imap |-> cur, ok |-> TRUE]
  IN  IF ~c.ok THEN [imap |-> c.imap, folders |-> <<>>]
      ELSE IF c.imap # "auth" THEN [imap |-> c.imap, folders |-> <<>>]
      ELSE [imap |-> c.imap, folders |-> names]

IsLive(m) == ~m.deleted

\* imap.expunge(): every message flagged \Deleted goes, the rest renumber
Expunge(box) == SelectSeq(box, IsLive)

\* what the COPY command can do: "ok" copies, "no" is a NO status (imaplib
\* returns it without raising), "raise" is an exception
MoveOutcomes == {"ok", "no", "raise"}

\* EmailClient.move_email: copy, store +FLAGS \Deleted, expunge; as the
\* value returned and the new server state
move_email(cur, email_id, dest_folder, o, box, cps) ==
  IF cur = "None" THEN [ok |-> FALSE, inbox |-> box, copies |-> cps]
  ELSE IF cur # "auth" \/ o = "raise" \/ (o = "ok" /\ email_id \notin 1..Len(box))
  THEN [ok |-> FALSE, inbox |-> box, copies |-> cps]
  ELSE LET flagged == [k \in 1..Len(box) |->
                         IF k = email_id THEN [box[k] EXCEPT !.deleted = TRUE]
                         ELSE box[k]]
       IN  [ok |-> TRUE,
            inbox |-> Expunge(flagged),
            copies |-> IF o = "ok"
                       THEN Append(cps, <<box[email_id].uid, dest_folder>>)
                       ELSE cps]

---------------------------------------------------------------------------
(* organize_inbox (agent.py).                                              *)

\* AgentConfig.max_emails_to_fetch
MaxEmailsToFetch == 10

\* a folder search without the break: the last matching folder wins
MatchFolderNoBreak(category, names) ==
  LET hits == {k \in 1..Len(names) :
                 Contains(ToLower(category), ToLower(names[k]))}
  IN  IF hits = {} THEN <<>>
      ELSE <<names[CHOOSE k \in hits : \A j \in hits : k >= j]>>

\* the folder search of organize_inbox: <<folder>> for the first folder
\* whose lower-cased name contains the lower-cased category, <<>> for None
MatchFolder(category, names) ==
  LET hits == {k \in 1..Len(names) :
                 Contains(ToLower(category), ToLower(names[k]))}
  IN  IF hits = {} THEN <<>>
      ELSE <<names[CHOOSE k \in hits : \A j \in hits : k <= j]>>

\* a move guard that forgets dry_run
MoveWantedIgnoringDryRun(target, dry_run) ==
  /\ target # <<>>
  /\ target[1] # <<>>

\* `if target_folder and not dry_run`
MoveWanted(target, dry_run) ==
  /\ target # <<>>
  /\ target[1] # <<>>
  /\ ~dry_run

\* an action record that reports every attempted move as done
MovedWheneverAttempted(wanted, returned) == wanted

\* action["moved"]: False, or what move_email returned when it was called
Moved(wanted, returned) == IF wanted THEN returned ELSE FALSE

\* the completions the categorize call gets in an organize run
OrganizeAnswers ==
  { [ok |-> TRUE, text |-> S_Important],
    [ok |-> TRUE, text |-> <<"w","o","r","k">>],
    [ok |-> TRUE, text |-> S_Spam \o <<"\n">> \o S_Work],
    [ok |-> FALSE, text |-> <<"t","i","m","e","o","u","t">>] }

\* the folder lists of the server
FolderLists ==
  { <<S_INBOX, S_WorkImportant, S_Archive>>,
    <<S_spam, S_Work, S_WorkImportant>>,
    <<S_INBOX>> }

PlainHeader(text) == << <<[bytes |-> FALSE, charset |-> "none", text |-> text]>> >>

Digit == <<"1","2","3","4","5","6","7","8","9">>

\* a well-formed message
PlainMessage(uid, seen, deleted) ==
  [uid |-> uid, seen |-> seen, deleted |-> deleted,
   subject |-> PlainHeader(<<"s", Digit[uid]>>),
   sender |-> PlainHeader(<<"a","@","b">>)]

\* the mailboxes of n messages an organize run starts from: some messages
\* may carry \Deleted already
OrganizeMailboxes ==
  UNION { { [k \in 1..n |-> PlainMessage(k, FALSE, k \in D)] : D \in SUBSET (1..n) }
          : n \in 0..MaxMsgs }

\* the value of fetchArgs while no direct fetch_emails call was made
NoArgs == [limit |-> 0, unread_only |-> FALSE]

\* the value of status while no check_connections result is at hand
NoStatus == [email |-> FALSE, llm |-> FALSE, ready |-> FALSE]

\* the value of probe while no check_connections result is at hand
NoProbe == [mail |-> "none", llm |-> FALSE]

\* the outcomes to draw for a connect call that happens only when there
\* is no session
IfConnecting(cur) == IF cur = "None" THEN ConnectOutcomes ELSE {"ok"}

\* with self.email_client as client: fetch_emails, get_folders
OrganizeStart ==
  /\ pc = "idle"
  /\ \E d \in BOOLEAN, o1 \in ConnectOutcomes :
       LET c == connect(imap, o1)
       IN  \E o2 \in IfConnecting(c.imap) :
             LET f == fetch_emails(c.imap, o2, inbox, MaxEmailsToFetch, FALSE)
             IN  \E o3 \in IfConnecting(f.imap) :
                   LET g == get_folders(f.imap, o3, serverFolders)
                   IN  /\ imap' = g.imap
                       /\ acquired' = (g.imap # "None")
                       /\ emails' = f.emails
                       /\ folders' = g.folders
                       /\ dryRun' = d
  /\ pc' = "organize"
  /\ op' = "organize"
  /\ outcome' = "none"
  /\ idx' = 0
  /\ results' = <<>>
  /\ moveLog' = <<>>
  /\ inbox0' = inbox
  /\ copies0' = copies
  /\ summaries' = <<>>
  /\ callLog' = <<>>
  /\ digest' = <<>>
  /\ status' = NoStatus
  /\ reply' = <<>>
  /\ probe' = NoProbe
  /\ UNCHANGED <<policyVars, decoderVars, cleanVars, menu,
                 fetchArgs, serverVars>>

\* one pass of the loop over emails: categorize, match a folder, move
OrganizeStep ==
  /\ pc = "organize"
  /\ idx < Len(emails)
  /\ \E a \in OrganizeAnswers :
       LET email == emails[idx + 1]
           category == categorize(chat(a), DefaultCategories)
           target == MatchFolder(category, folders)
           wanted == MoveWanted(target, dryRun)
           action == [email_id |-> email.id, uid |-> email.uid,
                      subject |-> email.subject, category |-> category,
                      target_folder |-> target, moved |-> FALSE]
       IN  IF wanted
           THEN \E mo \in MoveOutcomes :
                  LET mv == move_email(imap, email.id, target[1], mo, inbox,
                                       copies)
                  IN  /\ results' = Append(results,
                           [action EXCEPT !.moved = Moved(wanted, mv.ok)])
                      /\ inbox' = mv.inbox
                      /\ copies' = mv.copies
                      /\ moveLog' = Append(moveLog,
                           [email_id |-> email.id, uid |-> email.uid,
                            folder |-> target[1], copy |-> mo,
                            ok |-> mv.ok])
           ELSE /\ results' = Append(results,
                     [action EXCEPT !.moved = Moved(wanted, FALSE)])
                /\ UNCHANGED <<inbox, copies, moveLog>>
  /\ idx' = idx + 1
  /\ UNCHANGED <<policyVars, decoderVars, cleanVars, menuVars,
                 fetchArgs, serverFolders, imap, pc, op, outcome, emails,
                 folders, dryRun, inbox0, copies0, summaries, callLog, digest,
                 status, reply, acquired>>

\* the loop is over: __exit__, return results
OrganizeExit ==
  /\ pc = "organize"
  /\ idx = Len(emails)
  /\ imap' = disconnect(imap)
  /\ pc' = "idle"
  /\ outcome' = "returned"
  /\ UNCHANGED <<policyVars, decoderVars, cleanVars, menuVars,
                 fetchArgs, serverVars, op, emails, folders, idx, dryRun,
                 results, moveLog, inbox0, copies0, summaries, callLog, digest,
                 status, reply, acquired>>

\* an exception other than a failed completion leaves the with block (a
\* KeyboardInterrupt at a blocking call, which main.py catches, or an
\* EOFError at a prompt): __exit__ runs, the operation returns nothing
Interrupt ==
  /\ pc # "idle"
  /\ imap' = disconnect(imap)
  /\ pc' = "idle"
  /\ outcome' = "interrupted"
  /\ results' = <<>>
  /\ summaries' = <<>>
  /\ UNCHANGED <<policyVars, decoderVars, cleanVars, menuVars,
                 fetchArgs, serverVars, op, emails, folders, idx, dryRun,
                 moveLog, inbox0, copies0, callLog, digest, status, reply,
                 acquired>>

PolicyQuiet ==
  /\ raw = <<>>
  /\ allowed = <<>>
  /\ ret = <<>>
  /\ called = "none"

AgentQuiet ==
  /\ imap = "None"
  /\ pc = "idle"
  /\ op = "none"
  /\ outcome = "none"
  /\ emails = <<>>
  /\ folders = <<>>
  /\ idx = 0
  /\ dryRun = TRUE
  /\ results = <<>>
  /\ moveLog = <<>>
  /\ inbox0 = <<>>
  /\ copies0 = <<>>
  /\ summaries = <<>>
  /\ callLog = <<>>
  /\ digest = <<>>
  /\ status = NoStatus
  /\ reply = <<>>
  /\ acquired = FALSE
  /\ fetchArgs = NoArgs

\* the value of act while the loop has handled no action
NoAct == [kind |-> "none", sender_num |-> 0, email_num |-> 0, ok |-> FALSE]

CleanQuiet ==
  /\ sender_map = <<>>
  /\ act = NoAct
  /\ deleteCalls = <<>>
  /\ gone = {}
  /\ message = "none"

MenuQuiet ==
  /\ menu = "none"
  /\ probe = NoProbe

DecoderQuiet ==
  /\ msg = [multipart |-> FALSE, parts |-> <<>>]
  /\ body = <<>>

ServerQuiet ==
  /\ inbox = <<>>
  /\ copies = <<>>
  /\ serverFolders = <<>>

OrganizeInit ==
  /\ PolicyQuiet
  /\ AgentQuiet
  /\ CleanQuiet
  /\ MenuQuiet
  /\ DecoderQuiet
  /\ inbox \in OrganizeMailboxes
  /\ copies = <<>>
  /\ serverFolders \in FolderLists

OrganizeNext == OrganizeStart \/ OrganizeStep \/ OrganizeExit \/ Interrupt

SpecOrganize == OrganizeInit /\ [][OrganizeNext]_vars

---------------------------------------------------------------------------
(* get_inbox_summary and get_daily_digest (agent.py).                      *)

\* a chat that lets the completion call's exception through
chatReraises(o) == ~o.ok

\* whether LLMClient.chat raises: its try/except Exception turns every
\* failure of the completion call into the error text
chatRaises(o) == FALSE

\* LLMClient.summarize
summarize(o) == chat(o)

\* LLMClient.extract_action_items
extract_action_items(o) == chat(o)

\* the chat calls that build one EmailSummary, in the order its arguments
\* are evaluated
SummaryCalls(s, c, a, p) ==
  << [fn |-> "summarize", o |-> s],
     [fn |-> "categorize", o |-> c],
     [fn |-> "extract_action_items", o |-> a],
     [fn |-> "_determine_priority", o |-> p] >>

\* `limit or self.config.max_emails_to_fetch` (None is modelled as 0)
EffectiveLimit(limit) == IF limit = 0 THEN MaxEmailsToFetch ELSE limit

S_ok      == <<"o","k">>
S_Reply   == <<"-"," ","R","e","p","l","y">>
S_timeout == <<"t","i","m","e","o","u","t">>

\* the sentinel the extraction prompt asks for
S_NoActionItemsFound ==
  <<"N","o"," ","a","c","t","i","o","n"," ","i","t","e","m","s"," ",
    "f","o","u","n","d",".">>

\* the phrase get_daily_digest searches the lower-cased text for
S_no_action == <<"n","o"," ","a","c","t","i","o","n">>

\* s.priority == p, in the order of summaries
PriorityGroupReversed(sums, p) ==
  Reverse(Ascending({k \in 1..Len(sums) : sums[k].priority = p}))

\* [s for s in summaries if s.priority == p], as positions in summaries
PriorityGroup(sums, p) ==
  Ascending({k \in 1..Len(sums) : sums[k].priority = p})

\* an action-items scan that forgets .lower()
ActionEntriesCaseSensitive(sums) ==
  Ascending({k \in 1..Len(sums) : ~Contains(S_no_action, sums[k].action_items)})

\* the loop that collects all_actions, as positions in summaries
ActionEntries(sums) ==
  Ascending({k \in 1..Len(sums) :
               ~Contains(S_no_action, ToLower(sums[k].action_items))})

\* one element of digest_parts: a heading or fixed text (pos = 0, the
\* title carries the count), or the rendering of summaries[pos]
Part(kind, pos) == [kind |-> kind, pos |-> pos]

\* `if group:` heading, then _format_summary of each member
Section(heading, group) ==
  IF group = <<>> THEN <<>>
  ELSE <<Part(heading, 0)>> \o [j \in 1..Len(group) |-> Part("summary", group[j])]

\* a digest that renders the low section first
SectionsLowFirst(sums) ==
  Section("## Low Priority", PriorityGroup(sums, "LOW"))
  \o Section("## Medium Priority", PriorityGroup(sums, "MEDIUM"))
  \o Section("## High Priority", PriorityGroup(sums, "HIGH"))

\* the three `if high: / if medium: / if low:` blocks
Sections(sums) ==
  Section("## High Priority", PriorityGroup(sums, "HIGH"))
  \o Section("## Medium Priority", PriorityGroup(sums, "MEDIUM"))
  \o Section("## Low Priority", PriorityGroup(sums, "LOW"))

\* EmailAgent.get_daily_digest after get_inbox_summary returned: the
\* parts that "\n".join puts together, or the fixed message
get_daily_digest(sums) ==
  IF sums = <<>> THEN <<Part("No unread emails to summarize.", 0)>>
  ELSE LET acts == ActionEntries(sums)
       IN  <<Part("# Daily Email Digest", Len(sums))>>
           \o Sections(sums)
           \o (IF acts = <<>> THEN <<>>
               ELSE <<Part("## All Action Items", 0)>>
                    \o [j \in 1..Len(acts) |-> Part("action", acts[j])])

\* the limit arguments of get_inbox_summary (0 stands for None and for 0)
LimitArgs == {0, 1, 2}

\* the answers of the completion capability in a get_inbox_summary run:
\* each of the four calls succeeds or fails
SummaryAnswers ==
  [ summarize |-> {[ok |-> TRUE, text |-> S_ok], [ok |-> FALSE, text |-> S_timeout]},
    categorize |-> {[ok |-> TRUE, text |-> S_Work], [ok |-> FALSE, text |-> S_timeout]},
    extract |-> {[ok |-> TRUE, text |-> S_Reply], [ok |-> FALSE, text |-> S_timeout]},
    priority |-> {[ok |-> TRUE, text |-> S_HIGH], [ok |-> FALSE, text |-> S_timeout]} ]

\* the answers of the completion capability in a get_daily_digest run:
\* action items with and without the sentinel, the three priorities
DigestAnswers ==
  [ summarize |-> {[ok |-> TRUE, text |-> S_ok]},
    categorize |-> {[ok |-> TRUE, text |-> S_Work]},
    extract |-> { [ok |-> TRUE, text |-> S_Reply],
                  [ok |-> TRUE, text |-> S_NoActionItemsFound],
                  [ok |-> TRUE, text |-> <<"x",":"," ","N","O"," ","A","C","T","I","O","N">>],
                  [ok |-> FALSE, text |-> S_timeout] },
    priority |-> { [ok |-> TRUE, text |-> S_HIGH],
                   [ok |-> TRUE, text |-> <<"l","o","w">>],
                   [ok |-> TRUE, text |-> <<"M","e","d","i","u","m">>] } ]

\* the mailboxes of at most max messages, read and unread
ReadAndUnread(max) ==
  UNION { { [k \in 1..n |-> PlainMessage(k, k \in R, FALSE)] : R \in SUBSET (1..n) }
          : n \in 0..max }

\* the head of get_inbox_summary: __enter__, fetch_emails
EnterSummary(opname, limit, unread_only) ==
  /\ pc = "idle"
  /\ \E o1 \in ConnectOutcomes :
       LET c == connect(imap, o1)
       IN  \E o2 \in IfConnecting(c.imap) :
             LET f == fetch_emails(c.imap, o2, inbox, EffectiveLimit(limit),
                                   unread_only)
             IN  /\ imap' = f.imap
                 /\ acquired' = (f.imap # "None")
                 /\ emails' = f.emails
  /\ pc' = "summary"
  /\ op' = opname
  /\ outcome' = "none"
  /\ idx' = 0
  /\ summaries' = <<>>
  /\ callLog' = <<>>
  /\ digest' = <<>>
  /\ inbox0' = inbox
  /\ copies0' = copies
  /\ folders' = <<>>
  /\ dryRun' = TRUE
  /\ results' = <<>>
  /\ moveLog' = <<>>
  /\ status' = NoStatus
  /\ reply' = <<>>
  /\ probe' = NoProbe
  /\ UNCHANGED <<policyVars, decoderVars, cleanVars, menu,
                 fetchArgs, serverVars>>

\* show_inbox: get_inbox_summary(limit, unread_only)
SummaryStart ==
  \E limit \in LimitArgs, unread_only \in BOOLEAN :
    EnterSummary("summary", limit, unread_only)

\* show_digest: get_daily_digest calls get_inbox_summary(unread_only=True)
DigestStart == EnterSummary("digest", 0, TRUE)

\* one pass of get_inbox_summary's loop: four chat calls, one EmailSummary
BuildSummary(answers) ==
  /\ pc = "summary"
  /\ idx < Len(emails)
  /\ \E s \in answers.summarize, c \in answers.categorize,
        a \in answers.extract, p \in answers.priority :
       LET email == emails[idx + 1]
           calls == SummaryCalls(s, c, a, p)
           raising == {k \in 1..Len(calls) : chatRaises(calls[k].o)}
           made == IF raising = {} THEN Len(calls)
                   ELSE CHOOSE k \in raising : \A j \in raising : k <= j
           log == [k \in 1..made |->
                     [uid |-> email.uid, fn |-> calls[k].fn, ok |-> calls[k].o.ok]]
           summary == [email |-> email,
                       summary |-> summarize(s),
                       category |-> categorize(chat(c), DefaultCategories),
                       action_items |-> extract_action_items(a),
                       priority |-> DeterminePriority(chat(p))]
       IN  /\ callLog' = callLog \o log
           /\ IF raising = {}
              THEN /\ summaries' = Append(summaries, summary)
                   /\ idx' = idx + 1
                   /\ UNCHANGED <<imap, pc, outcome>>
              ELSE /\ imap' = disconnect(imap)
                   /\ pc' = "idle"
                   /\ outcome' = "raised"
                   /\ summaries' = <<>>
                   /\ UNCHANGED idx
  /\ UNCHANGED <<policyVars, decoderVars, cleanVars, menuVars,
                 fetchArgs, serverVars, op, emails, folders, dryRun, results,
                 moveLog, inbox0, copies0, digest, status, reply, acquired>>

SummaryStep == op = "summary" /\ BuildSummary(SummaryAnswers)

DigestStep == op = "digest" /\ BuildSummary(DigestAnswers)

\* the loop is over: __exit__, return summaries; get_daily_digest goes on
\* to render them
SummaryExit ==
  /\ pc = "summary"
  /\ idx = Len(emails)
  /\ imap' = disconnect(imap)
  /\ pc' = "idle"
  /\ outcome' = "returned"
  /\ digest' = IF op = "digest" THEN get_daily_digest(summaries) ELSE <<>>
  /\ UNCHANGED <<policyVars, decoderVars, cleanVars, menuVars,
                 fetchArgs, serverVars, op, emails, folders, idx, dryRun,
                 results, moveLog, inbox0, copies0, summaries, callLog, status,
                 reply, acquired>>

SummaryInit ==
  /\ PolicyQuiet
  /\ AgentQuiet
  /\ CleanQuiet
  /\ MenuQuiet
  /\ DecoderQuiet
  /\ inbox \in ReadAndUnread(MaxMsgs)
  /\ copies = <<>>
  /\ serverFolders = <<S_INBOX>>

DigestInit ==
  /\ PolicyQuiet
  /\ AgentQuiet
  /\ CleanQuiet
  /\ MenuQuiet
  /\ DecoderQuiet
  /\ inbox \in ReadAndUnread(MaxUnread)
  /\ copies = <<>>
  /\ serverFolders = <<S_INBOX>>

SummaryNext == SummaryStart \/ SummaryStep \/ SummaryExit \/ Interrupt

SpecSummary == SummaryInit /\ [][SummaryNext]_vars

DigestNext == DigestStart \/ DigestStep \/ SummaryExit \/ Interrupt

SpecDigest == DigestInit /\ [][DigestNext]_vars

---------------------------------------------------------------------------
(* check_connections (agent.py), the reply-drafting flow (main.py) and the *)
(* main menu, which runs the batch operations one after another.           *)

S_OK == <<"O","K">>

\* LLMClient.check_connection, from what the completion call did
check_connection(o) ==
  LET response == chat(o)
  IN  Contains(S_OK, ToUpper(response)) \/ Len(response) > 0

\* the answers to check_connection's probe
ProbeAnswers ==
  { [ok |-> TRUE, text |-> S_OK],
    [ok |-> TRUE, text |-> <<>>],
    [ok |-> FALSE, text |-> S_timeout] }

\* main_menu after check_status returned: sys.exit(1) when the initial
\* check is not ready, the loop otherwise; choice 6 only shows the table
AfterCheck(at, ready) ==
  IF at = "boot" THEN IF ready THEN "loop" ELSE "exit" ELSE at

\* check_status: EmailAgent.check_connections (connect, probe the model,
\* disconnect) and what main_menu does with its result
CheckConnections ==
  /\ pc = "idle"
  /\ menu \in {"boot", "loop"}
  /\ \E o1 \in ConnectOutcomes, a \in ProbeAnswers :
       LET c == connect(imap, o1)
           llm_ok == check_connection(a)
       IN  /\ imap' = disconnect(c.imap)
           /\ acquired' = (c.imap # "None")
           /\ status' = [email |-> c.ok, llm |-> llm_ok,
                         ready |-> c.ok /\ llm_ok]
           /\ probe' = [mail |-> o1, llm |-> a.ok]
           /\ menu' = AfterCheck(menu, c.ok /\ llm_ok)
  /\ op' = "check"
  /\ outcome' = "returned"
  /\ emails' = <<>>
  /\ folders' = <<>>
  /\ idx' = 0
  /\ dryRun' = TRUE
  /\ results' = <<>>
  /\ moveLog' = <<>>
  /\ inbox0' = inbox
  /\ copies0' = copies
  /\ summaries' = <<>>
  /\ callLog' = <<>>
  /\ digest' = <<>>
  /\ reply' = <<>>
  /\ UNCHANGED <<policyVars, decoderVars, cleanVars,
                 fetchArgs, serverVars, pc>>

\* draft_reply_interactive's fetch_emails(limit=5)
DraftLimit == 5

\* draft_reply_interactive up to the prompt: __enter__, fetch_emails, and
\* the early return when nothing was fetched
DraftStart ==
  /\ pc = "idle"
  /\ \E o1 \in ConnectOutcomes :
       LET c == connect(imap, o1)
       IN  \E o2 \in IfConnecting(c.imap) :
             LET f == fetch_emails(c.imap, o2, inbox, DraftLimit, FALSE)
             IN  /\ emails' = f.emails
                 /\ acquired' = (f.imap # "None")
                 /\ IF f.emails = <<>>
                    THEN /\ imap' = disconnect(f.imap)
                         /\ pc' = "idle"
                         /\ outcome' = "returned"
                    ELSE /\ imap' = f.imap
                         /\ pc' = "draft"
                         /\ outcome' = "none"
  /\ op' = "draft"
  /\ idx' = 0
  /\ reply' = <<>>
  /\ folders' = <<>>
  /\ dryRun' = TRUE
  /\ results' = <<>>
  /\ moveLog' = <<>>
  /\ inbox0' = inbox
  /\ copies0' = copies
  /\ summaries' = <<>>
  /\ callLog' = <<>>
  /\ digest' = <<>>
  /\ status' = NoStatus
  /\ probe' = NoProbe
  /\ UNCHANGED <<policyVars, decoderVars, cleanVars, menu,
                 fetchArgs, serverVars>>

\* the answers to the draft prompt
DraftAnswers ==
  { [ok |-> TRUE, text |-> S_ok], [ok |-> FALSE, text |-> S_timeout] }

\* the rest of the with block: the user picks an email, draft_reply asks
\* the model, the panel shows the reply, __exit__
DraftReply ==
  /\ pc = "draft"
  /\ \E choice \in 1..Len(emails), a \in DraftAnswers :
       /\ idx' = choice
       /\ reply' = chat(a)
  /\ imap' = disconnect(imap)
  /\ pc' = "idle"
  /\ outcome' = "returned"
  /\ UNCHANGED <<policyVars, decoderVars, cleanVars, menuVars,
                 fetchArgs, serverVars, op, emails, folders, dryRun, results,
                 moveLog, inbox0, copies0, summaries, callLog, digest, status,
                 acquired>>

\* the answers of the completion capability when the menu runs a summary
\* or a digest: one answer per call, the categorize call may fail
MenuAnswers ==
  [ summarize |-> {[ok |-> TRUE, text |-> S_ok]},
    categorize |-> {[ok |-> TRUE, text |-> S_Work], [ok |-> FALSE, text |-> S_timeout]},
    extract |-> {[ok |-> TRUE, text |-> S_Reply]},
    priority |-> {[ok |-> TRUE, text |-> S_HIGH]} ]

MenuStep == op \in {"summary", "digest"} /\ BuildSummary(MenuAnswers)

Init ==
  /\ PolicyQuiet
  /\ AgentQuiet
  /\ CleanQuiet
  /\ DecoderQuiet
  /\ menu = "boot"
  /\ probe = NoProbe
  /\ inbox \in ReadAndUnread(MaxMsgs)
  /\ copies = <<>>
  /\ serverFolders = <<S_INBOX, S_WorkImportant, S_Archive>>

\* choice 7: the loop breaks
Exit ==
  /\ pc = "idle"
  /\ menu = "loop"
  /\ menu' = "exit"
  /\ UNCHANGED <<policyVars, decoderVars, cleanVars,
                 serverVars, agentVars, probe>>

\* choices 1 to 4 of the loop
ShowDigest == menu = "loop" /\ DigestStart
ShowInbox == menu = "loop" /\ SummaryStart
DraftReplyInteractive == menu = "loop" /\ DraftStart
OrganizeInbox == menu = "loop" /\ OrganizeStart

\* main_menu: the initial check, then one operation after another. Choice
\* 5, clean_inbox, is followed on its own under SpecClean.
Next ==
  \/ CheckConnections
  \/ ShowInbox
  \/ ShowDigest
  \/ MenuStep
  \/ SummaryExit
  \/ OrganizeInbox
  \/ OrganizeStep
  \/ OrganizeExit
  \/ DraftReplyInteractive
  \/ DraftReply
  \/ Interrupt
  \/ Exit

Spec == Init /\ [][Next]_vars

---------------------------------------------------------------------------
(* fetch_emails called on its own (email_client.py).                       *)

\* a header of two encoded words, the second without a charset
EncodedHeader(text) ==
  << << [bytes |-> TRUE, charset |-> "utf-8", text |-> <<"R","e",":">>],
        [bytes |-> TRUE, charset |-> "none", text |-> text] >> >>

\* a header whose encoded word names a charset Python does not know
UnknownCharsetHeader(text) ==
  << << [bytes |-> TRUE, charset |-> "x-unknown", text |-> text] >> >>

\* the Subject headers of message uid: absent, plain, encoded, malformed
SubjectHeaders(uid) ==
  { <<>>,
    PlainHeader(<<"s", Digit[uid]>>),
    EncodedHeader(<<"s", Digit[uid]>>),
    UnknownCharsetHeader(<<"s", Digit[uid]>>) }

\* the mailboxes of n messages with every mix of Subject headers, read
\* and unread
MailboxesOf(n) ==
  { [k \in 1..n |-> [PlainMessage(k, f[k].seen, FALSE)
                       EXCEPT !.subject = f[k].subject]] :
      f \in [1..n -> UNION { [seen : BOOLEAN, subject : SubjectHeaders(k)]
                              : k \in 1..n }] }

WellNumbered(box) ==
  \A k \in 1..Len(box) : box[k].subject \in SubjectHeaders(k)

FetchMailboxes ==
  UNION { {box \in MailboxesOf(n) : WellNumbered(box)} : n \in 0..MaxFetch }

\* the limit arguments of a direct call
FetchLimits == {0, 1, 2, MaxEmailsToFetch}

\* client.fetch_emails(limit=..., unread_only=...)
FetchEmails ==
  /\ pc = "idle"
  /\ \E limit \in FetchLimits, unread_only \in BOOLEAN, o \in IfConnecting(imap) :
       LET f == fetch_emails(imap, o, inbox, limit, unread_only)
       IN  /\ imap' = f.imap
           /\ emails' = f.emails
           /\ acquired' = (f.imap # "None")
           /\ fetchArgs' = [limit |-> limit, unread_only |-> unread_only]
  /\ op' = "fetch"
  /\ outcome' = "returned"
  /\ UNCHANGED <<policyVars, decoderVars, cleanVars, menuVars,
                 serverVars, pc, folders, idx, dryRun, results,
                 moveLog, inbox0, copies0, summaries, callLog, digest, status,
                 reply>>

\* client.disconnect()
Disconnect ==
  /\ pc = "idle"
  /\ imap # "None"
  /\ imap' = disconnect(imap)
  /\ UNCHANGED <<policyVars, decoderVars, cleanVars, menuVars,
                 serverVars, fetchArgs, pc, op, outcome, emails,
                 folders, idx, dryRun, results, moveLog, inbox0, copies0,
                 summaries, callLog, digest, status, reply, acquired>>

FetchInit ==
  /\ PolicyQuiet
  /\ AgentQuiet
  /\ CleanQuiet
  /\ MenuQuiet
  /\ DecoderQuiet
  /\ inbox \in FetchMailboxes
  /\ copies = <<>>
  /\ serverFolders = <<S_INBOX>>

FetchNext == FetchEmails \/ Disconnect

SpecFetch == FetchInit /\ [][FetchNext]_vars

---------------------------------------------------------------------------
(* _get_email_body (email_client.py).                                      *)

\* the most leaf parts a multi-part message holds
MaxParts == 2

\* the bytes above 0x7F that the payloads hold; a byte below 0x80 is
\* written as its ASCII character
HighBytes == {"C3", "A9", "FF"}

RECURSIVE DecodeUtf8(_)
\* payload.decode("utf-8", errors="replace"): 0xC3 0xA9 is U+00E9, every
\* other high byte is invalid and becomes U+FFFD
DecodeUtf8(b) ==
  IF b = <<>> THEN <<>>
  ELSE IF Head(b) = "C3" /\ Len(b) >= 2 /\ b[2] = "A9"
  THEN <<"U+00E9">> \o DecodeUtf8(SubSeq(b, 3, Len(b)))
  ELSE IF Head(b) \in HighBytes
  THEN <<"U+FFFD">> \o DecodeUtf8(Tail(b))
  ELSE <<Head(b)>> \o DecodeUtf8(Tail(b))

\* payload.decode("iso-8859-1", errors="replace"): one character per byte
DecodeLatin1(b) ==
  [k \in 1..Len(b) |->
     CASE b[k] = "C3" -> "U+00C3"
       [] b[k] = "A9" -> "U+00A9"
       [] b[k] = "FF" -> "U+00FF"
       [] OTHER -> b[k]]

\* payload.decode(charset, errors="replace"): an unknown charset raises
\* LookupError
Decode(payload, charset) ==
  CASE charset = "utf-8" -> [raised |-> FALSE, text |-> DecodeUtf8(payload)]
    [] charset = "iso-8859-1" ->
         [raised |-> FALSE, text |-> DecodeLatin1(payload)]
    [] OTHER -> [raised |-> TRUE, text |-> <<>>]

\* part.get_content_charset() or "utf-8"
ContentCharset(part) == IF part.charset = "none" THEN "utf-8" ELSE part.charset

\* str(msg.get_payload()): the payload as the parser kept it, a high byte
\* it could not read as U+FFFD
RawString(b) ==
  [k \in 1..Len(b) |-> IF b[k] \in HighBytes THEN "U+FFFD" ELSE b[k]]

RECURSIVE WalkParts(_)
\* the loop over msg.walk(): the text of the first text/plain part whose
\* decoding does not raise, "" when the loop ends without one
WalkParts(parts) ==
  IF parts = <<>> THEN <<>>
  ELSE LET part == Head(parts)
           d == Decode(part.payload, ContentCharset(part))
       IN  IF part.ctype = "text/plain" /\ ~d.raised THEN d.text
           ELSE WalkParts(Tail(parts))

\* EmailClient._get_email_body. A message is its parts in walk order, a
\* multi-part one starting with the container itself.
_get_email_body(m) ==
  IF m.multipart THEN Strip(WalkParts(m.parts))
  ELSE LET d == Decode(m.parts[1].payload, ContentCharset(m.parts[1]))
       IN  Strip(IF d.raised THEN RawString(m.parts[1].payload) ELSE d.text)

\* the payloads of the parts
Payloads ==
  { <<>>, <<"h">>, <<" ", "h", "FF", "\n">>, <<"C3", "A9">> }

\* the text/plain parts: no charset declared, a known one, an unknown one
PlainParts ==
  [ctype : {"text/plain"},
   charset : {"none", "utf-8", "iso-8859-1", "x-unknown"},
   payload : Payloads]

HtmlParts ==
  [ctype : {"text/html"}, charset : {"utf-8", "x-unknown"},
   payload : {<<"<", "p", ">">>}]

Container == [ctype |-> "multipart/mixed", charset |-> "none", payload |-> <<>>]

\* the messages handed to the decoder: single-part ones, and multi-part
\* ones of up to MaxParts leaf parts
Messages ==
  { [multipart |-> FALSE, parts |-> <<p>>] : p \in PlainParts \cup HtmlParts }
  \cup UNION { { [multipart |-> TRUE, parts |-> <<Container>> \o leaves] :
                   leaves \in [1..n -> PlainParts \cup HtmlParts] }
               : n \in 0..MaxParts }

\* body=self._get_email_body(msg)
GetEmailBody ==
  /\ pc = "idle"
  /\ op = "none"
  /\ body' = _get_email_body(msg)
  /\ op' = "body"
  /\ outcome' = "returned"
  /\ UNCHANGED <<policyVars, serverVars, menuVars, cleanVars, msg, fetchArgs, imap, pc, emails,
                 folders, idx, dryRun, results, moveLog, inbox0, copies0,
                 summaries, callLog, digest, status, reply, acquired>>

BodyInit ==
  /\ PolicyQuiet
  /\ AgentQuiet
  /\ CleanQuiet
  /\ MenuQuiet
  /\ ServerQuiet
  /\ msg \in Messages
  /\ body = <<>>

BodyNext == GetEmailBody

SpecBody == BodyInit /\ [][BodyNext]_vars

---------------------------------------------------------------------------
(* clean_inbox (main.py). EmailAgent.find_deletable_emails, delete_email   *)
(* and delete_emails_from_sender are not in agent.py: they are modelled    *)
(* from the deletability scan and the deleteOne / deleteBySender           *)
(* capabilities of the specification.                                     *)

\* the most records a scan finds deletable
MaxDeletable == 3

S_done == <<"d","o","n","e">>
S_all == <<"a","l","l">>

Digits == <<"0","1","2","3","4","5","6","7","8","9">>

RECURSIVE SplitDot(_)
\* action.split(".")
SplitDot(s) ==
  LET dots == {k \in 1..Len(s) : s[k] = "."}
  IN  IF dots = {} THEN <<s>>
      ELSE LET d == CHOOSE k \in dots : \A j \in dots : k <= j
           IN  <<SubSeq(s, 1, d - 1)>> \o SplitDot(SubSeq(s, d + 1, Len(s)))

RECURSIVE DigitsValue(_)
DigitsValue(t) ==
  IF t = <<>> THEN 0
  ELSE 10 * DigitsValue(SubSeq(t, 1, Len(t) - 1))
       + (CHOOSE v \in 0..9 : Digits[v + 1] = t[Len(t)])

\* int(text) for a text of digits, letters, dots and blanks: <<n>>, or <<>>
\* for ValueError
ParseInt(s) ==
  LET t == Strip(s)
  IN  IF t # <<>> /\ \A k \in 1..Len(t) : \E v \in 1..10 : Digits[v] = t[k]
      THEN <<DigitsValue(t)>>
      ELSE <<>>

\* the scan order of find_deletable_emails over n records: the order in
\* which fetch_emails returns them, most recent first
ScanOrder(n) == [k \in 1..n |-> n + 1 - k]

Senders == {"a@x", "b@y"}

RECURSIVE FirstSeen(_, _)
\* the senders of the scanned records in first-seen order
FirstSeen(scan, from) ==
  IF scan = <<>> THEN <<>>
  ELSE LET rest == FirstSeen(SubSeq(scan, 1, Len(scan) - 1), from)
           sender == from[scan[Len(scan)]]
       IN  IF \E k \in 1..Len(rest) : rest[k] = sender THEN rest
           ELSE Append(rest, sender)

\* EmailAgent.find_deletable_emails: the deletable records grouped by
\* sender, groups in first-seen order, records in scan order, every record
\* in one group; from[i] is the sender of record i
find_deletable_emails(n, from) ==
  LET scan == ScanOrder(n)
      order == FirstSeen(scan, from)
      IsFrom(sender) == LET Test(i) == from[i] = sender
                        IN  SelectSeq(scan, Test)
  IN  [k \in 1..Len(order) |->
         [sender |-> order[k],
          emails |-> [j \in 1..Len(IsFrom(order[k])) |->
                        [id |-> IsFrom(order[k])[j]]]]]

\* what EmailAgent.delete_email can do: delete and return True, return
\* False, raise
DeleteOutcomes == {"ok", "fail", "raise"}

\* the texts typed at the Action prompt
ActionTexts ==
  { S_done, <<"D","o","n","e"," ">>, S_all,
    <<"1">>, <<"2">>, <<"3">>, <<"x">>, <<>>,
    <<"1",".","1">>, <<"1",".","2">>, <<"2",".","1">>, <<" ","1",".","3">>,
    <<"1",".","0">>, <<"3",".","1">>, <<"1",".","x">>, <<"1",".","1",".","1">> }

\* ids = [e["email"].id for e in sender_data["emails"]]
IdsOf(sender_data) ==
  [k \in 1..Len(sender_data.emails) |-> sender_data.emails[k].id]

\* a single delete that leaves the record in its group
PopKeepsRecord(group, email_num) == group

\* emails.pop(email_num - 1)
Pop(group, email_num) ==
  SubSeq(group, 1, email_num - 1) \o SubSeq(group, email_num + 1, Len(group))

RECURSIVE DeleteAll(_, _, _)
\* the loop of the "all" action over sender_map.values(): one
\* delete_emails_from_sender call per group; G holds the ids the calls delete
DeleteAll(nums, map, G) ==
  IF nums = <<>> THEN <<>>
  ELSE LET ids == IdsOf(map[Head(nums)])
       IN  <<[fn |-> "delete_emails_from_sender", ids |-> ids,
              deleted |-> {ids[k] : k \in 1..Len(ids)} \cap G]>>
           \o DeleteAll(Tail(nums), map, G)

\* clean_inbox up to the action menu: the scan, the early return when
\* nothing is deletable, sender_map
CleanStart ==
  /\ pc = "idle"
  /\ \E n \in 0..MaxDeletable : \E from \in [1..n -> Senders] :
       LET deletable == find_deletable_emails(n, from)
       IN  /\ sender_map' = deletable
           /\ IF deletable = <<>>
              THEN /\ pc' = "idle"
                   /\ outcome' = "returned"
                   /\ message' = "No deletable emails found"
              ELSE /\ pc' = "clean"
                   /\ outcome' = "none"
                   /\ message' = "Found"
  /\ op' = "clean"
  /\ act' = NoAct
  /\ deleteCalls' = <<>>
  /\ gone' = {}
  /\ UNCHANGED <<policyVars, decoderVars, menuVars, serverVars, fetchArgs,
                 imap, emails, folders, idx, dryRun, results, moveLog, inbox0,
                 copies0, summaries, callLog, digest, status, reply, acquired>>

\* del sender_map[sender_num]
Without(map, sender_num) == [k \in DOMAIN map \ {sender_num} |-> map[k]]

\* the record ids the groups of the map hold
IdsIn(map) ==
  UNION { {map[k].emails[j].id : j \in 1..Len(map[k].emails)} : k \in DOMAIN map }

\* the end of one pass of the action loop: end is "loop" when the loop
\* goes on, "break" when it breaks, "raise" when an exception reaches
\* clean_inbox's except clause
Handled(map, a, cs, deleted, line, end) ==
  /\ sender_map' = map
  /\ act' = a
  /\ deleteCalls' = cs
  /\ gone' = gone \cup deleted
  /\ message' = line
  /\ pc' = IF end = "loop" THEN "clean" ELSE "idle"
  /\ outcome' = CASE end = "loop" -> "none"
                  [] end = "break" -> "returned"
                  [] OTHER -> "raised"

Ignored(kind, line) ==
  Handled(sender_map, [NoAct EXCEPT !.kind = kind], <<>>, {}, line, "loop")

\* action == "all"
HandleAll ==
  LET a == [NoAct EXCEPT !.kind = "all"]
  IN  \E confirm \in BOOLEAN :
        IF ~confirm THEN Handled(sender_map, a, <<>>, {}, "none", "loop")
        ELSE \E G \in SUBSET IdsIn(sender_map) :
               LET cs == DeleteAll(Ascending(DOMAIN sender_map), sender_map, G)
               IN  Handled(sender_map, [a EXCEPT !.ok = TRUE], cs,
                           UNION {cs[k].deleted : k \in 1..Len(cs)},
                           "Deleted n email(s)", "break")

\* "." in action: a single delete
HandleSingle(action) ==
  LET parts == SplitDot(action)
      nums == [k \in 1..Len(parts) |-> ParseInt(parts[k])]
  IN  IF Len(parts) # 2 \/ \E k \in 1..Len(nums) : nums[k] = <<>>
      THEN Ignored("invalid", "Invalid format")
      ELSE LET sender_num == nums[1][1]
               email_num == nums[2][1]
               a == [kind |-> "one", sender_num |-> sender_num,
                     email_num |-> email_num, ok |-> FALSE]
           IN  IF sender_num \notin DOMAIN sender_map
               THEN Ignored("invalid", "Invalid sender number")
               ELSE IF ~(1 <= email_num /\ email_num <= Len(sender_map[sender_num].emails))
               THEN Ignored("invalid", "Invalid email number")
               ELSE \E confirm \in BOOLEAN :
                 IF ~confirm THEN Handled(sender_map, a, <<>>, {}, "none", "loop")
                 ELSE \E o \in DeleteOutcomes :
                   LET group == sender_map[sender_num].emails
                       id == group[email_num].id
                       call == [fn |-> "delete_email", ids |-> <<id>>,
                                deleted |-> IF o = "ok" THEN {id} ELSE {}]
                   IN  CASE o = "ok" ->
                              Handled([sender_map EXCEPT ![sender_num].emails =
                                         Pop(group, email_num)],
                                      [a EXCEPT !.ok = TRUE], <<call>>, {id},
                                      "Deleted!", "loop")
                         [] o = "fail" ->
                              Handled(sender_map, a, <<call>>, {},
                                      "Failed to delete", "loop")
                         [] OTHER ->
                              Handled(sender_map, a, <<call>>, {}, "Error", "raise")

\* any other action: delete all from a sender
HandleSender(action) ==
  LET num == ParseInt(action)
  IN  IF num = <<>> THEN Ignored("invalid", "Invalid input")
      ELSE IF num[1] \notin DOMAIN sender_map
      THEN Ignored("invalid", "Invalid sender number")
      ELSE LET sender_num == num[1]
               a == [kind |-> "sender", sender_num |-> sender_num,
                     email_num |-> 0, ok |-> FALSE]
               ids == IdsOf(sender_map[sender_num])
           IN  \E confirm \in BOOLEAN :
                 IF ~confirm THEN Handled(sender_map, a, <<>>, {}, "none", "loop")
                 ELSE \E G \in SUBSET {ids[k] : k \in 1..Len(ids)} :
                        Handled(Without(sender_map, sender_num),
                                [a EXCEPT !.ok = TRUE],
                                <<[fn |-> "delete_emails_from_sender",
                                   ids |-> ids, deleted |-> G]>>,
                                G, "Deleted n email(s)", "loop")

\* one pass of the action loop
CleanAction ==
  /\ pc = "clean"
  /\ \E text \in ActionTexts :
       LET action == ToLower(Strip(text))
       IN  IF action = S_done
           THEN Handled(sender_map, [NoAct EXCEPT !.kind = "done"], <<>>, {},
                        "none", "break")
           ELSE IF action = S_all THEN HandleAll
           ELSE IF Contains(<<".">>, action) THEN HandleSingle(action)
           ELSE HandleSender(action)
  /\ UNCHANGED <<policyVars, decoderVars, menuVars, serverVars, fetchArgs,
                 imap, op, emails, folders, idx, dryRun, results, moveLog,
                 inbox0, copies0, summaries, callLog, digest, status, reply,
                 acquired>>

CleanInit ==
  /\ PolicyQuiet
  /\ AgentQuiet
  /\ CleanQuiet
  /\ MenuQuiet
  /\ DecoderQuiet
  /\ ServerQuiet

CleanNext == CleanStart \/ CleanAction

SpecClean == CleanInit /\ [][CleanNext]_vars

---------------------------------------------------------------------------
(* Claims about organize_inbox, checked under SpecOrganize.                *)

\* C3: organize_inbox with dry_run = true never calls move_email, and the
\* mailbox (the INBOX and the other folders) is what it was when the run
\* started, while the run goes and after it.
C3_DryRunNeverMoves ==
  (op = "organize" /\ dryRun) =>
    /\ moveLog = <<>>
    /\ inbox = inbox0
    /\ copies = copies0

\* C3 witness: a dry run that returned two records, each with a matching
\* folder, over a server that was connected.
C3_Witness ==
  /\ op = "organize"
  /\ dryRun
  /\ outcome = "returned"
  /\ Len(results) = 2
  /\ \A k \in 1..Len(results) : results[k].target_folder # <<>>

\* C4: in every action record, moved is true only if target_folder is
\* non-null, the run was not a dry run and the move_email call for that
\* record returned true; a record with no matching folder has moved = false.
C4_MovedOnlyOnSuccess ==
  op = "organize" =>
    \A k \in 1..Len(results) :
      /\ results[k].moved =>
            /\ results[k].target_folder # <<>>
            /\ ~dryRun
            /\ \E n \in 1..Len(moveLog) :
                  /\ moveLog[n].uid = results[k].uid
                  /\ moveLog[n].email_id = results[k].email_id
                  /\ moveLog[n].folder = results[k].target_folder[1]
                  /\ moveLog[n].ok
      /\ results[k].target_folder = <<>> => ~results[k].moved

\* C4 witness: a run that returned a record whose move succeeded and a
\* record whose move_email call returned false.
C4_Witness ==
  /\ op = "organize"
  /\ outcome = "returned"
  /\ \E j \in 1..Len(results), k \in 1..Len(results) :
        /\ results[j].moved
        /\ results[k].target_folder # <<>>
        /\ ~results[k].moved
        /\ \E n \in 1..Len(moveLog) :
              moveLog[n].uid = results[k].uid /\ ~moveLog[n].ok

\* the folders, among those get_folders returned, whose name contains the
\* category of record k, case-insensitively
FoldersNaming(k) ==
  {n \in 1..Len(folders) :
     Contains(ToLower(results[k].category), ToLower(folders[n]))}

\* C5: each record's target_folder is the first folder, in get_folders'
\* order, whose name contains the record's category as a case-insensitive
\* substring, and null when no folder name contains it; folders [INBOX,
\* Work/Important, Archive] with category Important give Work/Important.
C5_FirstMatchingFolder ==
  op = "organize" =>
    \A k \in 1..Len(results) :
      LET naming == FoldersNaming(k)
      IN  /\ naming = {} <=> results[k].target_folder = <<>>
          /\ \A n \in naming :
                (\A j \in naming : n <= j)
                  => results[k].target_folder = <<folders[n]>>
          /\ (folders = <<S_INBOX, S_WorkImportant, S_Archive>>
                /\ results[k].category = S_Important)
               => results[k].target_folder = <<S_WorkImportant>>

\* C5 witness: over folders [spam, Work, Work/Important] a record of
\* category Work, which two folders name, got the first of them, and a
\* record of category Spam got the folder "spam".
C5_Witness ==
  /\ op = "organize"
  /\ outcome = "returned"
  /\ folders = <<S_spam, S_Work, S_WorkImportant>>
  /\ \E j \in 1..Len(results), k \in 1..Len(results) :
        /\ results[j].category = S_Work
        /\ results[j].target_folder = <<S_Work>>
        /\ results[k].category = S_Spam
        /\ results[k].target_folder = <<S_spam>>

---------------------------------------------------------------------------
(* Claims about get_daily_digest, checked under SpecDigest.                *)

\* the places of the digest that list summary k under "All Action Items"
ActionListings(k) ==
  {i \in 1..Len(digest) :
     /\ digest[i].kind = "action"
     /\ digest[i].pos = k
     /\ \E h \in 1..(i - 1) : digest[h].kind = "## All Action Items"}

\* summary k's action_items text holds the no-items phrase, in any case
HasNoItemsPhrase(k) ==
  Contains(S_no_action, ToLower(summaries[k].action_items))

Priorities == <<"HIGH", "MEDIUM", "LOW">>

HeadingOf(p) ==
  CASE p = "HIGH"   -> "## High Priority"
    [] p = "MEDIUM" -> "## Medium Priority"
    [] p = "LOW"    -> "## Low Priority"

\* the places of the digest that hold the heading of priority p
HeadingPlaces(p) == {i \in 1..Len(digest) : digest[i].kind = HeadingOf(p)}

\* the places of the digest that render summary k in a priority section
Renderings(k) ==
  {i \in 1..Len(digest) : digest[i].kind = "summary" /\ digest[i].pos = k}

\* the heading a place of the digest stands under
HeadingAbove(i) ==
  LET above == {h \in 1..(i - 1) : digest[h].pos = 0 /\ digest[h].kind # "summary"}
  IN  IF above = {} THEN "none"
      ELSE digest[CHOOSE h \in above : \A g \in above : g <= h].kind

\* C7: for a non-empty result set every summary is rendered in exactly one
\* priority section, its own; the sections come in the order HIGH, MEDIUM,
\* LOW, a section with no summary is left out, and within a section the
\* summaries keep the order of the fetched sequence.
C7_DigestSections ==
  (op = "digest" /\ outcome = "returned" /\ summaries # <<>>) =>
    /\ \A k \in 1..Len(summaries) :
         /\ Cardinality(Renderings(k)) = 1
         /\ \A i \in Renderings(k) :
              HeadingAbove(i) = HeadingOf(summaries[k].priority)
    /\ \A n \in 1..Len(Priorities) :
         Cardinality(HeadingPlaces(Priorities[n])) =
           IF \E k \in 1..Len(summaries) : summaries[k].priority = Priorities[n]
           THEN 1 ELSE 0
    /\ \A m \in 1..Len(Priorities), n \in 1..Len(Priorities) :
         m < n => \A i \in HeadingPlaces(Priorities[m]),
                     j \in HeadingPlaces(Priorities[n]) : i < j
    /\ \A j \in 1..Len(summaries), k \in 1..Len(summaries) :
         (j < k /\ summaries[j].priority = summaries[k].priority)
           => \A i \in Renderings(j), h \in Renderings(k) : i < h

\* C7 witness: summaries fetched with priorities LOW, HIGH, LOW are
\* rendered second, first, third, with no medium section.
C7_Witness ==
  /\ op = "digest"
  /\ outcome = "returned"
  /\ Len(summaries) = 3
  /\ summaries[1].priority = "LOW"
  /\ summaries[2].priority = "HIGH"
  /\ summaries[3].priority = "LOW"
  /\ \E a \in Renderings(2), b \in Renderings(1), c \in Renderings(3) :
       a < b /\ b < c
  /\ HeadingPlaces("MEDIUM") = {}

---------------------------------------------------------------------------
(* Claims about get_inbox_summary, checked under SpecSummary.              *)

IsErrorText(t) ==
  /\ Len(t) >= Len(S_Error)
  /\ SubSeq(t, 1, Len(S_Error)) = S_Error

\* the chat calls one EmailSummary takes, in order
CallOrder ==
  <<"summarize", "categorize", "extract_action_items", "_determine_priority">>

\* C9: get_inbox_summary returns exactly one EmailSummary per fetched
\* email, in fetch order, whichever of the four completion calls fail: no
\* failure raises, the failing call's field holds the error text (the
\* category and the priority what the policy makes of it), the other
\* fields and records are untouched, and every call is made exactly once.
C9_OneSummaryPerEmail ==
  op = "summary" =>
    /\ outcome # "raised"
    /\ outcome = "returned" =>
         /\ Len(summaries) = Len(emails)
         /\ Len(callLog) = Len(CallOrder) * Len(emails)
         /\ \A k \in 1..Len(emails) :
              LET call(n) == callLog[Len(CallOrder) * (k - 1) + n]
              IN  /\ summaries[k].email = emails[k]
                  /\ \A n \in 1..Len(CallOrder) :
                       /\ call(n).uid = emails[k].uid
                       /\ call(n).fn = CallOrder[n]
                  /\ IsErrorText(summaries[k].summary) <=> ~call(1).ok
                  /\ IsErrorText(summaries[k].action_items) <=> ~call(3).ok
                  /\ summaries[k].category \in
                       {DefaultCategories[n] : n \in 1..Len(DefaultCategories)}
                  /\ ~call(2).ok => summaries[k].category = S_Other
                  /\ summaries[k].priority \in {"HIGH", "MEDIUM", "LOW"}
                  /\ ~call(4).ok => summaries[k].priority = "MEDIUM"

\* C9 witness: a run over two emails returned two summaries although all
\* four calls failed for the first email; the second has no error text.
C9_Witness ==
  /\ op = "summary"
  /\ outcome = "returned"
  /\ Len(emails) = 2
  /\ Len(summaries) = 2
  /\ \A n \in 1..4 : ~callLog[n].ok
  /\ \A n \in 5..8 : callLog[n].ok
  /\ IsErrorText(summaries[1].summary)
  /\ ~IsErrorText(summaries[2].summary)

---------------------------------------------------------------------------
(* Claims about the scoped connection, checked under Spec.                 *)

BatchOps == {"summary", "digest", "organize", "draft"}

\* C13: connectivity failures are reported by the readiness check before
\* any batch operation: check_connections returns ready = email AND llm,
\* email is false when the mail store cannot connect, llm is false when
\* the call to the completion capability fails, and main_menu starts no
\* batch operation unless the initial check returned ready = true.
C13_ReadinessReported ==
  [][ /\ op' = "check" =>
           /\ status'.ready = (status'.email /\ status'.llm)
           /\ probe'.mail # "ok" => ~status'.email
           /\ ~probe'.llm => ~status'.llm
      /\ (menu = "boot" /\ menu' = "loop") => status'.ready
      /\ op' \in BatchOps => menu' # "boot" ]_vars

\* what holds of the code: the same statement without the llm conjunct;
\* llm is false only when the completion is the empty text
ReadinessExceptUnreachableModel ==
  [][ /\ op' = "check" =>
           /\ status'.ready = (status'.email /\ status'.llm)
           /\ probe'.mail # "ok" => ~status'.email
      /\ (menu = "boot" /\ menu' = "loop") => status'.ready
      /\ op' \in BatchOps => menu' # "boot" ]_vars

---------------------------------------------------------------------------
(* Claims about move_email, checked under SpecOrganize.                    *)

\* the uids of the messages a mailbox holds
UidsIn(box) == {box[k].uid : k \in 1..Len(box)}

\* the uids of the messages copied into other folders
UidsCopied(cps) == {cps[k][1] : k \in 1..Len(cps)}

\* C15: move_email flags the source message as deleted and expunges it
\* only if the copy to the destination folder succeeded: when the copy
\* step fails, by an exception or by a non-OK status from the server,
\* move_email returns False and the source mailbox is left unchanged, so
\* that no message leaves the mailbox without being in the destination
\* (the messages that carried \Deleted beforehand aside).
C15_MoveOnlyAfterCopy ==
  [][ Len(moveLog') = Len(moveLog) + 1 =>
        LET call == moveLog'[Len(moveLog')]
        IN  /\ call.copy # "ok" =>
                 /\ ~call.ok
                 /\ inbox' = inbox
                 /\ copies' = copies
            /\ \A k \in 1..Len(inbox) :
                 (~inbox[k].deleted /\ inbox[k].uid \notin UidsIn(inbox')) =>
                   inbox[k].uid \in UidsCopied(copies') ]_vars

\* what holds of the code: only a copy that raises keeps the message
MoveUnlessCopyRaises ==
  [][ Len(moveLog') = Len(moveLog) + 1 =>
        LET call == moveLog'[Len(moveLog')]
        IN  call.copy = "raise" =>
              /\ ~call.ok
              /\ inbox' = inbox
              /\ copies' = copies ]_vars

---------------------------------------------------------------------------
(* Claims about the moves of one organize_inbox run, checked under         *)
(* SpecMoves: organize_inbox over mailboxes of up to MaxMoved messages.    *)

\* the most messages of a mailbox whose moves are followed
MaxMoved == 3

\* the mailboxes the run starts from: some messages may carry \Deleted
\* already, set by another client of the mailbox
MovedMailboxes ==
  UNION { { [k \in 1..n |-> PlainMessage(k, FALSE, k \in D)] : D \in SUBSET (1..n) }
          : n \in 0..MaxMoved }

MovesInit ==
  /\ PolicyQuiet
  /\ AgentQuiet
  /\ CleanQuiet
  /\ MenuQuiet
  /\ DecoderQuiet
  /\ inbox \in MovedMailboxes
  /\ copies = <<>>
  /\ serverFolders = <<S_INBOX, S_WorkImportant, S_Archive>>

SpecMoves == MovesInit /\ [][OrganizeNext]_vars

\* C16: in a non-dry-run organize_inbox every move_email(id, folder) call
\* acts on the very message that was fetched and categorized under that
\* id, although each earlier move of the run expunges the mailbox and
\* renumbers the ids: over the whole sequence of moves no message other
\* than the categorized one is copied, flagged deleted or expunged. A
\* message that carried \Deleted before the call is left aside: any
\* EXPUNGE removes it.
C16_MoveActsOnCategorized ==
  [][ Len(moveLog') = Len(moveLog) + 1 =>
        LET call == moveLog'[Len(moveLog')]
        IN  /\ \A k \in 1..Len(inbox) :
                 (~inbox[k].deleted /\ inbox[k].uid \notin UidsIn(inbox')) =>
                   inbox[k].uid = call.uid
            /\ \A k \in (Len(copies) + 1)..Len(copies') :
                 copies'[k][1] = call.uid ]_vars

\* what holds of the code: the same statement for the runs that start
\* from a mailbox in which no message carries \Deleted
MoveActsOnCategorizedIfNoneDeleted ==
  [][ (Len(moveLog') = Len(moveLog) + 1
       /\ \A k \in 1..Len(inbox0) : ~inbox0[k].deleted) =>
        LET call == moveLog'[Len(moveLog')]
        IN  /\ \A k \in 1..Len(inbox) :
                 inbox[k].uid \notin UidsIn(inbox') => inbox[k].uid = call.uid
            /\ \A k \in (Len(copies) + 1)..Len(copies') :
                 copies'[k][1] = call.uid ]_vars

---------------------------------------------------------------------------
(* Claims about clean_inbox, checked under SpecClean.                      *)

\* the record ids a sequence of delete calls submits, call after call
RECURSIVE Submitted(_)
Submitted(cs) ==
  IF cs = <<>> THEN <<>> ELSE Head(cs).ids \o Submitted(Tail(cs))

\* C14: in the action loop of clean_inbox, over any sequence of user
\* actions: a successful single delete removes exactly that record from
\* its sender group and leaves the other records of the group in their
\* order (and the other groups alone); a failed single delete leaves the
\* groups unchanged; a confirmed delete-by-sender removes the whole group;
\* and no record id already deleted is submitted for deletion again by a
\* later action, "all" included, nor twice by one action.
C14_CleanInboxDeletes ==
  [][ pc = "clean" =>
        LET s == act'.sender_num
            e == act'.email_num
            ids == Submitted(deleteCalls')
        IN  /\ (act'.kind = "one" /\ act'.ok) =>
                 LET before == sender_map[s].emails
                     after == sender_map'[s].emails
                 IN  /\ DOMAIN sender_map' = DOMAIN sender_map
                     /\ \A k \in DOMAIN sender_map \ {s} :
                          sender_map'[k] = sender_map[k]
                     /\ sender_map'[s].sender = sender_map[s].sender
                     /\ Len(after) = Len(before) - 1
                     /\ \A k \in 1..Len(after) :
                          after[k] = before[IF k < e THEN k ELSE k + 1]
                     /\ ids = <<before[e].id>>
                     /\ gone' = gone \cup {before[e].id}
            /\ (act'.kind = "one" /\ ~act'.ok) => sender_map' = sender_map
            /\ (act'.kind = "sender" /\ act'.ok) =>
                 /\ DOMAIN sender_map' = DOMAIN sender_map \ {s}
                 /\ \A k \in DOMAIN sender_map' : sender_map'[k] = sender_map[k]
            /\ \A k \in 1..Len(ids) : ids[k] \notin gone
            /\ \A j, k \in 1..Len(ids) : j # k => ids[j] # ids[k] ]_vars

\* C14 witness: "all" was confirmed after a single delete had removed a
\* record from one of two groups: the calls of "all" submitted the other
\* records and not the deleted one.
C14_Witness ==
  /\ op = "clean"
  /\ act.kind = "all"
  /\ act.ok
  /\ DOMAIN sender_map = {1, 2}
  /\ Len(deleteCalls) = 2
  /\ Submitted(deleteCalls) # <<>>
  /\ \E id \in gone : \A k \in 1..Len(Submitted(deleteCalls)) :
       Submitted(deleteCalls)[k] # id

---------------------------------------------------------------------------
(* Claims about fetch_emails, checked under SpecFetch.                     *)

\* the sequence numbers fetch_emails loops over, most recent first
FetchWindow ==
  Reverse(Window(Search(inbox, fetchArgs.unread_only), fetchArgs.limit))

\* whether the Subject of the k-th message of the window can be decoded
Decodable(k) == ~_decode_header_value(inbox[FetchWindow[k]].subject).raised

\* C10: one malformed message cannot abort a batch fetch: over a connected
\* session fetch_emails returns a record for every message of the fetch
\* window whose headers decode, whatever the other messages of the window
\* hold.
C10_MalformedMessageKeepsBatch ==
  (op = "fetch" /\ imap = "auth") =>
    \A k \in 1..Len(FetchWindow) :
      Decodable(k) =>
        \E j \in 1..Len(emails) :
          /\ emails[j].id = FetchWindow[k]
          /\ emails[j].uid = inbox[FetchWindow[k]].uid

\* what fetch_emails returns instead: the records of the messages before
\* the first malformed one of the window, and nothing from there on
FetchCutAtMalformed ==
  (op = "fetch" /\ imap = "auth") =>
    LET malformed == {k \in 1..Len(FetchWindow) : ~Decodable(k)}
    IN  /\ malformed = {} => Len(emails) = Len(FetchWindow)
        /\ malformed # {} =>
             Len(emails) = (CHOOSE k \in malformed : \A j \in malformed : k <= j) - 1
        /\ \A k \in 1..Len(emails) : emails[k].id = FetchWindow[k]

\* the search results fetch_emails starts from, ascending
Matching == Search(inbox, fetchArgs.unread_only)

\* the records a fetch of at most limit messages is to return: the most
\* recently received matching messages, most recent first
MostRecent(limit) ==
  LET n == Len(Matching)
      take == IF limit < n THEN limit ELSE n
  IN  [k \in 1..take |-> Matching[n + 1 - k]]

\* C11: for every limit >= 0 and every mailbox, fetch_emails returns at
\* most limit records, they are the most recently received messages
\* matching the search, and they come most recent first (descending
\* transport id). Stated for the fetches in which every matching message
\* decodes, the others being the matter of C10.
C11_FetchAtMostLimit ==
  ( /\ op = "fetch"
    /\ imap = "auth"
    /\ fetchArgs.limit >= 0
    /\ \A k \in 1..Len(Matching) :
         /\ ~_decode_header_value(inbox[Matching[k]].subject).raised
         /\ ~_decode_header_value(inbox[Matching[k]].sender).raised ) =>
    /\ Len(emails) <= fetchArgs.limit
    /\ Len(emails) = Len(MostRecent(fetchArgs.limit))
    /\ \A k \in 1..Len(emails) :
         /\ emails[k].id = MostRecent(fetchArgs.limit)[k]
         /\ emails[k].uid = inbox[emails[k].id].uid
    /\ \A j, k \in 1..Len(emails) : j < k => emails[j].id > emails[k].id

\* what fetch_emails does for the positive limits: the same statement
\* with limit >= 1
FetchAtMostPositiveLimit ==
  ( /\ op = "fetch"
    /\ imap = "auth"
    /\ fetchArgs.limit >= 1
    /\ \A k \in 1..Len(Matching) :
         /\ ~_decode_header_value(inbox[Matching[k]].subject).raised
         /\ ~_decode_header_value(inbox[Matching[k]].sender).raised ) =>
    /\ Len(emails) <= fetchArgs.limit
    /\ Len(emails) = Len(MostRecent(fetchArgs.limit))
    /\ \A k \in 1..Len(emails) :
         /\ emails[k].id = MostRecent(fetchArgs.limit)[k]
         /\ emails[k].uid = inbox[emails[k].id].uid
    /\ \A j, k \in 1..Len(emails) : j < k => emails[j].id > emails[k].id

---------------------------------------------------------------------------
(* Claims about _get_email_body, checked under SpecBody.                   *)

\* the places of the text/plain parts in the walk
PlainPlaces == {k \in 1..Len(msg.parts) : msg.parts[k].ctype = "text/plain"}

FirstPlainPart ==
  msg.parts[CHOOSE k \in PlainPlaces : \A j \in PlainPlaces : k <= j]

\* C12: for a multi-part message _get_email_body returns the content of
\* the first part in walk order whose content type is plain text, wherever
\* it sits among the parts, decoded with its declared charset, or with
\* UTF-8 and replacement when decoding fails or the charset is
\* unrecognized; with no plain-text part the body is the empty string.
\* The content is compared up to the surrounding whitespace, which the
\* function strips.
C12_FirstPlainPartDecoded ==
  (op = "body" /\ msg.multipart) =>
    IF PlainPlaces = {} THEN body = <<>>
    ELSE LET declared == Decode(FirstPlainPart.payload,
                                ContentCharset(FirstPlainPart))
         IN  body = Strip(IF declared.raised
                          THEN DecodeUtf8(FirstPlainPart.payload)
                          ELSE declared.text)

\* what holds of the code: the part chosen is the first text/plain part
\* whose charset Python knows, and the body is empty when there is none
BodyFromFirstKnownCharset ==
  (op = "body" /\ msg.multipart) =>
    LET known == {k \in PlainPlaces :
                    ContentCharset(msg.parts[k]) \in KnownCharsets}
    IN  IF known = {} THEN body = <<>>
        ELSE LET part == msg.parts[CHOOSE k \in known : \A j \in known : k <= j]
             IN  body = Strip(Decode(part.payload, ContentCharset(part)).text)

---------------------------------------------------------------------------
(* Inputs of the classification policy.                                    *)

Fragments ==
  { S_Work,
    <<"i","m","p","o","r","t","a","n","t">>,
    <<"S","P","A","M">>,
    <<"\n">>,
    S_HIGH,
    <<"h","i">>,
    <<"g","h">>,
    <<"L","o","w">> }

RECURSIVE Texts(_)
Texts(n) ==
  IF n = 0 THEN { <<>> }
  ELSE LET T == Texts(n - 1)
       IN  T \cup { t \o f : t \in T, f \in Fragments }

\* the completion texts: the assembled ones, and chat's error text with an
\* assembled exception message
RawTexts ==
  Texts(MaxFrags) \cup { chat([ok |-> FALSE, text |-> t]) : t \in Texts(1) }

CategoryLists ==
  { DefaultCategories,
    <<S_Work, S_Important>>,
    <<S_Spam>>,
    <<>> }

PolicyInit ==
  /\ raw \in RawTexts
  /\ allowed \in CategoryLists
  /\ ret = <<>>
  /\ called = "none"
  /\ AgentQuiet
  /\ CleanQuiet
  /\ MenuQuiet
  /\ DecoderQuiet
  /\ ServerQuiet

\* one call of categorize on the completion text
CallCategorize ==
  /\ called = "none"
  /\ ret' = categorize(raw, allowed)
  /\ called' = "categorize"
  /\ UNCHANGED <<raw, allowed, serverVars, agentVars, decoderVars, menuVars, cleanVars>>

\* one call of _determine_priority on the completion text
CallDeterminePriority ==
  /\ called = "none"
  /\ ret' = DeterminePriority(raw)
  /\ called' = "priority"
  /\ UNCHANGED <<raw, allowed, serverVars, agentVars, decoderVars, menuVars, cleanVars>>

PolicyNext == CallCategorize \/ CallDeterminePriority

SpecPolicy == PolicyInit /\ [][PolicyNext]_vars

---------------------------------------------------------------------------
(* Claims about the classification policy, checked under SpecPolicy.       *)

\* the allowed names found in the first line of the stripped completion
NamedInFirstLine(k) ==
  Contains(ToLower(allowed[k]), ToLower(FirstLine(Strip(raw))))

\* C1: categorize returns a member of the allowed list or the fallback
\* "Other", never the raw text: the first allowed name, in list order, that
\* the first line of the stripped response contains (case-insensitively),
\* and "Other" when that line contains none.
C1_CategorizeClosedSet ==
  called = "categorize" =>
    /\ ret \in {allowed[k] : k \in 1..Len(allowed)} \cup {S_Other}
    /\ (\A k \in 1..Len(allowed) : ~NamedInFirstLine(k)) => ret = S_Other
    /\ \A k \in 1..Len(allowed) :
         (NamedInFirstLine(k) /\ \A j \in 1..(k - 1) : ~NamedInFirstLine(j))
           => ret = allowed[k]

\* C1 witness: a response of two lines whose first line holds two allowed
\* names in the opposite of list order and whose second line holds a third;
\* the name first in the list is returned.
C1_Witness ==
  /\ called = "categorize"
  /\ allowed = DefaultCategories
  /\ raw = S_Work \o <<"i","m","p","o","r","t","a","n","t">> \o <<"\n">>
             \o <<"S","P","A","M">>
  /\ ret = S_Important

\* C2: _determine_priority returns HIGH when the upper-cased response
\* contains "HIGH" (even next to "LOW"), LOW when it contains "LOW" and not
\* "HIGH", and MEDIUM otherwise, the empty and the error text included.
C2_PriorityTotal ==
  called = "priority" =>
    LET up == ToUpper(raw)
    IN  /\ ret \in {"HIGH", "MEDIUM", "LOW"}
        /\ Contains(S_HIGH, up) <=> ret = "HIGH"
        /\ (Contains(S_LOW, up) /\ ~Contains(S_HIGH, up)) <=> ret = "LOW"
        /\ (~Contains(S_LOW, up) /\ ~Contains(S_HIGH, up)) <=> ret = "MEDIUM"

\* C2 witness: a response holding both tokens, "low" first, resolves to HIGH.
C2_Witness ==
  /\ called = "priority"
  /\ raw = <<"L","o","w">> \o <<"h","i">> \o <<"g","h">>
  /\ ret = "HIGH"

====
